---- MODULE Spec2Model ----
(***************************************************************************)
(* The ctlstore sidecar (pkg/sidecar/sidecar.go): an HTTP front for a      *)
(* Reader with point lookups, prefix scans and ledger-latency queries.     *)
(* Requests are handled concurrently; each handler is wrapped by the       *)
(* handleErr translator built in New.                                      *)
(***************************************************************************)
EXTENDS Naturals, Sequences, FiniteSets, TLC

VARIABLES
    sidecar,   \* the Sidecar struct: bindAddr, reader, maxRows
    req,       \* req[r]: the inbound request (method, path, body)
    pc,        \* pc[r]: where the handling of the request stands:
               \*   "idle", "routed", "decoded" (body decoded), "called" (waiting
               \*   for the Reader), "iter" (in the scan loop), "writing" (inside
               \*   Encode's w.Write), "returning" (the handler's body is over),
               \*   "translate" (the handler returned), "done"
    resp,      \* resp[r]: the http.ResponseWriter of the request
    res,       \* res[r]: the row list accumulated by getRowsByKeyPrefix
    cursor,    \* cursor[r]: the *ctlstore.Rows returned by the Reader
    calls,     \* calls[r]: the Reader operations invoked for the request
    hist,      \* hist[r]: the outcomes the Reader and the writer produced
    buf,       \* buf[r]: the marshalled value Encode is writing to the connection
    retErr,    \* retErr[r]: the error the handler returns to handleErr
    log,       \* log[r]: events.Log entries written by handleErr
    obs,       \* obs[r]: ops recorded by observeAPILatency
    overlapped \* history: a scan took a turn of its loop while the cursor of
               \*   another request was open

vars == <<sidecar, req, pc, resp, res, cursor, calls, hist, buf, retErr, log, obs, overlapped>>

(***************************************************************************)
(* Bounds                                                                  *)
(***************************************************************************)
MaxCursorRows == 3      \* rows a cursor yields at most
MaxCeiling == 2         \* largest configured Config.MaxRows
MaxKeys == 2            \* key segments per ReadRequest in SpecKey

Reqs == {"r1", "r2"}
RowVals == {"a", "b"}
Msgs == {"replica unreachable", "database is locked"}
Durations == {0, 1500000000}
Marshals == {"ok", "marshal"}     \* json.Marshal succeeds or fails
Writes == {"ok", "write"}         \* w.Write succeeds or fails

(***************************************************************************)
(* Errors: an error is the chain of its messages, outermost first; the    *)
(* nil error is the empty chain.                                           *)
(***************************************************************************)
NoErr == <<>>

ReaderErrs == {<<m>> : m \in Msgs}

\* the errors of rows.Scan and rows.Err
CursorErrs == {<<"database is locked">>}

\* errors.Wrap: nil stays nil, otherwise the message is put in front of the cause
Wrap(err, msg) == IF err = NoErr THEN NoErr ELSE <<msg>> \o err

LimitErr(n) == <<"max row count (", ToString(n), ") exceeded">>

MarshalErr == <<"json: unsupported value">>

WriteErr == <<"write: broken pipe">>

(***************************************************************************)
(* Key codec                                                               *)
(***************************************************************************)
NilValue == [t |-> "nil", v |-> <<>>]

NilBytes == [t |-> "nilbytes", v |-> <<>>]

Bytes(b) == [t |-> "bytes", v |-> b]

ScalarVals == {NilValue, [t |-> "num", v |-> <<7>>]}

BinaryVals == {NilBytes, Bytes(<<>>), Bytes(<<1>>)}

Keys == [Value : ScalarVals, Binary : BinaryVals]

ToValueNonEmpty(k) == IF Len(k.Binary.v) > 0 THEN k.Binary ELSE k.Value

ToValue(k) == IF k.Binary # NilBytes THEN k.Binary ELSE k.Value

keysToInterface(keys) == [i \in 1..Len(keys) |-> ToValue(keys[i])]

(***************************************************************************)
(* Requests                                                                *)
(***************************************************************************)
Body(malformed, keys) == [malformed |-> malformed, keys |-> keys]

NoBody == Body(TRUE, <<>>)

PlainKey == [Value |-> [t |-> "num", v |-> <<7>>], Binary |-> NilBytes]

BinKey == [Value |-> [t |-> "num", v |-> <<7>>], Binary |-> Bytes(<<1>>)]

SampleBodies == {Body(TRUE, <<>>), Body(FALSE, <<BinKey, PlainKey>>)}

\* a URL path is the sequence of what stands between its slashes, the leading
\* one left out: /ping is <<"ping">>, /ping/ is <<"ping", "">>, //ping is
\* <<"", "ping">> and / is <<"">>
LookupPath == <<"get-row-by-key", "f", "t">>

ScanPath == <<"get-rows-by-key-prefix", "f", "t">>

Request(m, p, b) == [method |-> m, path |-> p, body |-> b]

NoReq == Request("", <<>>, NoBody)

Inputs ==
    {Request("POST", p, b) : p \in {LookupPath, ScanPath}, b \in SampleBodies}
    \cup {Request("GET", p, NoBody) :
            p \in {<<"get-ledger-latency">>, <<"healthcheck">>, <<"ping">>, <<"nope">>,
                   LookupPath, <<"", "ping">>, <<"healthcheck", "..", "ping">>,
                   <<"ping", "">>}}
    \cup {Request("POST", p, NoBody) : p \in {<<"ping">>, <<"get-row-by-key", "f", "">>}}

\* the routes New registers: method, first segment, number of path variables
Template(m, head, n, h) == [method |-> m, head |-> head, vars |-> n, handler |-> h]

Registered ==
    {Template("POST", "get-row-by-key", 2, "getRowByKey"),
     Template("POST", "get-rows-by-key-prefix", 2, "getRowsByKeyPrefix"),
     Template("GET", "get-ledger-latency", 0, "getLedgerLatency"),
     Template("GET", "healthcheck", 0, "healthcheck"),
     Template("GET", "ping", 0, "ping")}

\* path.Clean on a rooted path: empty and "." segments go, ".." takes the
\* segment before it
RECURSIVE CleanFrom(_, _, _)
CleanFrom(p, i, acc) ==
    IF i > Len(p) THEN acc
    ELSE IF p[i] \in {"", "."} THEN CleanFrom(p, i + 1, acc)
    ELSE IF p[i] = ".."
         THEN CleanFrom(p, i + 1, IF acc = <<>> THEN acc ELSE SubSeq(acc, 1, Len(acc) - 1))
    ELSE CleanFrom(p, i + 1, Append(acc, p[i]))

\* the router's cleanPath: path.Clean, then the trailing slash is put back
\* unless the result is the root
CleanPath(p) ==
    LET np == CleanFrom(p, 1, <<>>)
    IN  IF np = <<>> THEN <<"">>
        ELSE IF p[Len(p)] = "" THEN Append(np, "")
        ELSE np

\* a route's template matches the whole path; a path variable is [^/]+
PathMatches(t, p) ==
    /\ Len(p) = 1 + t.vars
    /\ p[1] = t.head
    /\ \A i \in 2..Len(p) : p[i] # ""

\* the router: a path not in canonical form is redirected before any route is
\* tried; a route must match path and method; a path registered for another
\* method is a method mismatch; anything else is not found
Route(m, p) ==
    IF CleanPath(p) # p THEN "redirect"
    ELSE IF \E t \in Registered : PathMatches(t, p) /\ t.method = m
         THEN (CHOOSE t \in Registered : PathMatches(t, p) /\ t.method = m).handler
    ELSE IF \E t \in Registered : PathMatches(t, p) THEN "methodNotAllowed"
    ELSE "notfound"

DecodeLenient(body) == [rr |-> body.keys, err |-> NoErr]

\* json.NewDecoder(r.Body).Decode(&rr)
DecodeBody(body) ==
    IF body.malformed THEN [rr |-> <<>>, err |-> <<"invalid character">>]
    ELSE [rr |-> body.keys, err |-> NoErr]

(***************************************************************************)
(* http.ResponseWriter: the first WriteHeader commits the status and the   *)
(* headers set so far; a Write commits 200 if nothing is committed yet.    *)
(* failed: a Write to the connection has failed.                           *)
(***************************************************************************)
NewWriter == [status |-> 0, header |-> {}, sent |-> {}, body |-> <<>>, failed |-> FALSE]

Chunk(kind, text, val) == [kind |-> kind, text |-> text, val |-> val]

SetHeader(w, h) == [w EXCEPT !.header = @ \cup {h}]

WriteHeader(w, code) ==
    IF w.status # 0 THEN w ELSE [w EXCEPT !.status = code, !.sent = w.header]

Write(w, chunk) ==
    LET w1 == WriteHeader(w, 200) IN [w1 EXCEPT !.body = Append(@, chunk)]

ErrLine(err) == Chunk("text", err \o <<"\n">>, <<>>)

Partial == Chunk("partial", <<>>, <<>>)

\* a Write that fails: some of the bytes may have gone out
WriteFailed(w) == [Write(w, Partial) EXCEPT !.failed = TRUE]

\* what a Write may do once a Write has failed: the writer of http.Server (Start)
\* keeps its error and takes no more bytes (FALSE); a writer ServeHTTP is given
\* by another caller may take them (TRUE)
Accepts(w) == IF w.failed THEN BOOLEAN ELSE {TRUE}

\* http.Error: the headers, WriteHeader(code), then the text, whose Write is
\* taken (acc) or not; its result is ignored
HttpError(w, err, code, acc) ==
    LET w1 == WriteHeader(SetHeader(SetHeader(w, "Content-Type"), "X-Content-Type-Options"),
                          code)
    IN  IF acc THEN Write(w1, ErrLine(err)) ELSE w1

JsonArray(rows) == Chunk("json-array", <<"\n">>, rows)

JsonObject(fields) == Chunk("json-object", <<"\n">>, fields)

\* what a part of a handler leaves behind: the writer, the error to return and
\* the marshalled value whose write is under way, if any
Out(w, e) == [w |-> w, err |-> e, buf |-> <<>>]

\* json.NewEncoder(w).Encode(v), up to its wait: the value is marshalled in
\* full, then w.Write commits 200 and starts writing to the connection
EncodeBegin(w, chunk, enc) ==
    IF enc = "marshal" THEN Out(w, MarshalErr)
    ELSE [w |-> WriteHeader(w, 200), err |-> NoErr, buf |-> <<chunk>>]

\* Encode's w.Write returns: all was written, or the connection failed midway
EncodeEnd(w, b, enc) ==
    IF enc = "ok" THEN Out(Write(w, b[1]), NoErr)
    ELSE Out(WriteFailed(w), WriteErr)

\* the function handleErr returns: log and translate a handler's error
HandleErr(w, err, acc) == IF err = NoErr THEN w ELSE HttpError(w, err, 500, acc)

LogErr(err, url) == IF err = NoErr THEN <<>> ELSE <<[err |-> err, url |-> url]>>

\* ServeHTTP: the server commits 200 when the handler wrote nothing
FinishResponse(w) == WriteHeader(w, 200)

(***************************************************************************)
(* Outcomes of the Reader and of the response writer, as the handlers see  *)
(* them.                                                                   *)
(***************************************************************************)
Ev(k, e, found, x, d, enc) ==
    [k |-> k, e |-> e, found |-> found, x |-> x, d |-> d, enc |-> enc]

LookupOutcomes ==
    {Ev("lookup", e, FALSE, "", 0, "ok") : e \in ReaderErrs}
    \cup {Ev("lookup", NoErr, FALSE, "", 0, "ok")}
    \cup {Ev("lookup", NoErr, TRUE, x, 0, enc) : x \in RowVals, enc \in Marshals}

LatencyOutcomes ==
    {Ev("latency", e, FALSE, "", 0, "ok") : e \in ReaderErrs}
    \cup {Ev("latency", NoErr, FALSE, "", d, enc) : d \in Durations, enc \in Marshals}

HealthOutcomes ==
    {Ev("latency", e, FALSE, "", 0, "ok") : e \in ReaderErrs}
    \cup {Ev("latency", NoErr, FALSE, "", d, "ok") : d \in Durations}

AcquireOutcomes == {Ev("acquire", e, FALSE, "", 0, "ok") : e \in ReaderErrs \cup {NoErr}}

RowOutcomes ==
    {Ev("row", e, FALSE, "", 0, "ok") : e \in CursorErrs}
    \cup {Ev("row", NoErr, TRUE, x, 0, "ok") : x \in RowVals}

EndOutcomes ==
    {Ev("end", e, FALSE, "", 0, "ok") : e \in CursorErrs}
    \cup {Ev("end", NoErr, FALSE, "", 0, enc) : enc \in Marshals}

WriteOutcomes == {Ev("write", NoErr, FALSE, "", 0, enc) : enc \in Writes}

\* the Write of http.Error's text on a writer that has failed before
TextOutcome(acc) == Ev("text", NoErr, FALSE, "", 0, IF acc THEN "ok" ELSE "write")

Call(op, args) == [op |-> op, args |-> args]

Seconds(d) == <<ToString(d \div 1000000000), ToString(d % 1000000000)>>

(***************************************************************************)
(* The handlers, in the parts between which they wait: for the body, for   *)
(* the Reader, for the connection.                                         *)
(***************************************************************************)
\* line 193: the Reader call of getRowByKey
lookupCall(rr) == Call("GetRowByKey", keysToInterface(rr))

\* line 155: the Reader call of getRowsByKeyPrefix
scanCall(rr) == Call("GetRowsByKeyPrefix", keysToInterface(rr))

latencyCall == Call("GetLedgerLatency", <<>>)

\* lines 118-125: getLedgerLatency once the Reader has answered
getLedgerLatencyAnswer(w, o) ==
    IF o.e # NoErr THEN Out(w, Wrap(o.e, "get ledger latency"))
    ELSE EncodeBegin(w, JsonObject(<<"value">> \o Seconds(o.d) \o <<"unit", "seconds">>),
                     o.enc)

\* line 132: healthcheck once the Reader has answered
healthcheckAnswer(w, o) == Out(w, Wrap(o.e, "healthcheck"))

pingOwnAnswer(w, o) == Out(w, Wrap(o.e, "ping"))

\* line 139: ping returns what healthcheck returns
pingAnswer(w, o) == healthcheckAnswer(w, o)

getRowByKeyNotFoundAsError(w, o) ==
    IF o.e # NoErr THEN Out(w, o.e)
    ELSE IF ~o.found THEN Out(w, <<"not found">>)
    ELSE EncodeBegin(w, JsonObject(<<o.x>>), o.enc)

\* lines 194-203: getRowByKey once the Reader has answered
getRowByKeyAnswer(w, o) ==
    IF o.e # NoErr THEN Out(w, o.e)
    ELSE IF ~o.found THEN Out(WriteHeader(SetHeader(w, "X-Ctlstore"), 404), NoErr)
    ELSE EncodeBegin(w, JsonObject(<<o.x>>), o.enc)

\* the router's answer to a path that is not in canonical form
redirect(w) == WriteHeader(SetHeader(w, "Location"), 301)

\* the router's NotFoundHandler for a request no registered route matches
notFound(w) == HttpError(w, <<"404 page not found">>, 404, TRUE)

\* the router's answer to a registered path under another method: 405 and no body
methodNotAllowed(w) == WriteHeader(w, 405)

LimitNever(n, maxRows) == FALSE

LimitAtCeiling(n, maxRows) == maxRows > 0 /\ n >= maxRows

LimitExceeded(n, maxRows) == maxRows > 0 /\ n > maxRows

NoCursor == [acquired |-> FALSE, fetched |-> 0, decoded |-> 0, closes |-> 0]

OpenCursor == [acquired |-> TRUE, fetched |-> 0, decoded |-> 0, closes |-> 0]

CloseNever(c) == c

\* line 159: the deferred rows.Close(), registered once the cursor is held
CloseRows(c) == IF c.acquired THEN [c EXCEPT !.closes = @ + 1] ELSE c

\* lines 155-158: the Reader's answer to GetRowsByKeyPrefix
ScanAcquire(o) ==
    IF o.e # NoErr THEN [err |-> o.e, rows |-> NoCursor]
    ELSE [err |-> NoErr, rows |-> OpenCursor]

ScanStepBare(acc, o, maxRows) ==
    IF o.e # NoErr THEN [res |-> acc, err |-> o.e]
    ELSE LET r2 == Append(acc, o.x)
         IN  IF LimitExceeded(Len(r2), maxRows)
             THEN [res |-> r2, err |-> LimitErr(maxRows)]
             ELSE [res |-> r2, err |-> NoErr]

\* lines 160-170: rows.Next() returned true; Scan, append, check the ceiling
ScanStep(acc, o, maxRows) ==
    IF o.e # NoErr THEN [res |-> acc, err |-> Wrap(o.e, "scan")]
    ELSE LET r2 == Append(acc, o.x)
         IN  IF LimitExceeded(Len(r2), maxRows)
             THEN [res |-> r2, err |-> LimitErr(maxRows)]
             ELSE [res |-> r2, err |-> NoErr]

\* lines 171-176: rows.Next() returned false; rows.Err, then encode the list
ScanFinish(w, acc, o) ==
    IF o.e # NoErr THEN Out(w, o.e)
    ELSE EncodeBegin(w, JsonArray(acc), o.enc)

SlotShared(r) == "r1"

\* res is a local of the invocation: each request has its own
Slot(r) == r

\* the op each handler gives observeAPILatency
OpName(h) ==
    CASE h = "getRowByKey" -> "get-row-by-key"
      [] h = "getRowsByKeyPrefix" -> "get-rows-by-key-prefix"
      [] h = "getLedgerLatency" -> "get-ledger-latency"
      [] OTHER -> h

(***************************************************************************)
(* State machine: one goroutine per request; a step of a request runs its  *)
(* handler up to the next point where it waits.                            *)
(***************************************************************************)
PerReq(v) == [r \in Reqs |-> v]

\* New(config): the Sidecar is built once; MaxRows is any configured ceiling
Init ==
    /\ sidecar \in {[bindAddr |-> ":1331", reader |-> "reader", maxRows |-> n] :
                        n \in 0..MaxCeiling}
    /\ req = PerReq(NoReq)
    /\ pc = PerReq("idle")
    /\ resp = PerReq(NewWriter)
    /\ res = PerReq(<<>>)
    /\ cursor = PerReq(NoCursor)
    /\ calls = PerReq(<<>>)
    /\ hist = PerReq(<<>>)
    /\ buf = PerReq(<<>>)
    /\ retErr = PerReq(NoErr)
    /\ log = PerReq(<<>>)
    /\ obs = PerReq(<<>>)
    /\ overlapped = FALSE

Handler(r) == Route(req[r].method, req[r].path)

Goto(r, l) == pc' = [pc EXCEPT ![r] = l]

\* a request arrives
Receive(r) ==
    /\ pc[r] = "idle"
    /\ \E in \in Inputs : req' = [req EXCEPT ![r] = in]
    /\ Goto(r, "routed")
    /\ UNCHANGED <<sidecar, resp, res, cursor, calls, hist, buf, retErr, log, obs, overlapped>>

\* the router answers by itself: no handler runs
RouterAnswers(r, w) ==
    /\ pc[r] = "routed"
    /\ resp' = [resp EXCEPT ![r] = FinishResponse(w)]
    /\ Goto(r, "done")
    /\ UNCHANGED <<sidecar, req, res, cursor, calls, hist, buf, retErr, log, obs, overlapped>>

Redirect(r) == Handler(r) = "redirect" /\ RouterAnswers(r, redirect(resp[r]))

NotFound(r) == Handler(r) = "notfound" /\ RouterAnswers(r, notFound(resp[r]))

MethodNotAllowed(r) ==
    Handler(r) = "methodNotAllowed" /\ RouterAnswers(r, methodNotAllowed(resp[r]))

\* lines 149-153 and 186-190: the body is read and decoded
Decode(r) ==
    /\ pc[r] = "routed" /\ Handler(r) \in {"getRowByKey", "getRowsByKeyPrefix"}
    /\ LET d == DecodeBody(req[r].body)
       IN  IF d.err # NoErr
           THEN /\ retErr' = [retErr EXCEPT ![r] = Wrap(d.err, "decode body")]
                /\ Goto(r, "returning")
           ELSE /\ Goto(r, "decoded")
                /\ UNCHANGED retErr
    /\ UNCHANGED <<sidecar, req, resp, res, cursor, calls, hist, buf, log, obs, overlapped>>

\* line 193: getRowByKey calls the Reader and waits
LookupInvoke(r) ==
    /\ pc[r] = "decoded" /\ Handler(r) = "getRowByKey"
    /\ calls' = [calls EXCEPT ![r] = Append(@, lookupCall(DecodeBody(req[r].body).rr))]
    /\ Goto(r, "called")
    /\ UNCHANGED <<sidecar, req, resp, res, cursor, hist, buf, retErr, log, obs, overlapped>>

\* the handler met outcome o and ran on to out: it waits in w.Write when a
\* write is under way, and its body is over otherwise
Proceed(r, out, o) ==
    /\ resp' = [resp EXCEPT ![r] = out.w]
    /\ retErr' = [retErr EXCEPT ![r] = out.err]
    /\ buf' = [buf EXCEPT ![r] = out.buf]
    /\ hist' = [hist EXCEPT ![r] = Append(@, o)]
    /\ Goto(r, IF out.buf # <<>> THEN "writing" ELSE "returning")

\* lines 194-203: the Reader answers the lookup; a found row is marshalled and
\* its write begins
LookupAnswer(r) ==
    /\ pc[r] = "called" /\ Handler(r) = "getRowByKey"
    /\ \E o \in LookupOutcomes : Proceed(r, getRowByKeyAnswer(resp[r], o), o)
    /\ UNCHANGED <<sidecar, req, res, cursor, calls, log, obs, overlapped>>

\* lines 117 and 131: the ledger-latency handlers call the Reader and wait
LatencyInvoke(r) ==
    /\ pc[r] = "routed" /\ Handler(r) \in {"getLedgerLatency", "healthcheck", "ping"}
    /\ calls' = [calls EXCEPT ![r] = Append(@, latencyCall)]
    /\ Goto(r, "called")
    /\ UNCHANGED <<sidecar, req, resp, res, cursor, hist, buf, retErr, log, obs, overlapped>>

LedgerAnswer(r) ==
    /\ pc[r] = "called" /\ Handler(r) = "getLedgerLatency"
    /\ \E o \in LatencyOutcomes : Proceed(r, getLedgerLatencyAnswer(resp[r], o), o)
    /\ UNCHANGED <<sidecar, req, res, cursor, calls, log, obs, overlapped>>

HealthAnswer(r) ==
    /\ pc[r] = "called" /\ Handler(r) = "healthcheck"
    /\ \E o \in HealthOutcomes : Proceed(r, healthcheckAnswer(resp[r], o), o)
    /\ UNCHANGED <<sidecar, req, res, cursor, calls, log, obs, overlapped>>

\* healthcheck returns inside ping: its deferred observation runs first
PingAnswer(r) ==
    /\ pc[r] = "called" /\ Handler(r) = "ping"
    /\ \E o \in HealthOutcomes : Proceed(r, pingAnswer(resp[r], o), o)
    /\ obs' = [obs EXCEPT ![r] = Append(@, "healthcheck")]
    /\ UNCHANGED <<sidecar, req, res, cursor, calls, log, overlapped>>

\* lines 154-155: the list is made, the Reader is asked for the cursor
ScanInvoke(r) ==
    /\ pc[r] = "decoded" /\ Handler(r) = "getRowsByKeyPrefix"
    /\ res' = [res EXCEPT ![Slot(r)] = <<>>]
    /\ calls' = [calls EXCEPT ![r] = Append(@, scanCall(DecodeBody(req[r].body).rr))]
    /\ Goto(r, "called")
    /\ UNCHANGED <<sidecar, req, resp, cursor, hist, buf, retErr, log, obs, overlapped>>

\* lines 155-159: the Reader answers with a cursor or an error
ScanAcquired(r) ==
    /\ pc[r] = "called" /\ Handler(r) = "getRowsByKeyPrefix"
    /\ \E o \in AcquireOutcomes :
          LET a == ScanAcquire(o)
          IN  /\ hist' = [hist EXCEPT ![r] = Append(@, o)]
              /\ cursor' = [cursor EXCEPT ![r] = a.rows]
              /\ retErr' = [retErr EXCEPT ![r] = a.err]
              /\ Goto(r, IF a.err # NoErr THEN "returning" ELSE "iter")
    /\ UNCHANGED <<sidecar, req, resp, res, calls, buf, log, obs, overlapped>>

\* one turn of the loop: rows.Next() is true, the row is scanned and appended
ScanNext(r) ==
    /\ pc[r] = "iter"
    /\ cursor[r].fetched < MaxCursorRows
    /\ \E o \in RowOutcomes :
          LET st == ScanStep(res[Slot(r)], o, sidecar.maxRows)
          IN  /\ res' = [res EXCEPT ![Slot(r)] = st.res]
              /\ cursor' = [cursor EXCEPT ![r].fetched = @ + 1,
                                          ![r].decoded = IF o.e = NoErr THEN @ + 1 ELSE @]
              /\ hist' = [hist EXCEPT ![r] = Append(@, o)]
              /\ retErr' = [retErr EXCEPT ![r] = st.err]
              /\ Goto(r, IF st.err # NoErr THEN "returning" ELSE "iter")
    /\ overlapped' = (overlapped \/ \E q \in Reqs \ {r} :
                                        cursor[q].acquired /\ cursor[q].closes = 0)
    /\ UNCHANGED <<sidecar, req, resp, calls, buf, log, obs>>

\* rows.Next() is false: rows.Err, then the list is marshalled and its write
\* begins
ScanEnd(r) ==
    /\ pc[r] = "iter"
    /\ \E o \in EndOutcomes : Proceed(r, ScanFinish(resp[r], res[Slot(r)], o), o)
    /\ UNCHANGED <<sidecar, req, res, cursor, calls, log, obs, overlapped>>

\* lines 125, 176 and 203: Encode's w.Write returns and the handler's body ends
WriteEnds(r) ==
    /\ pc[r] = "writing"
    /\ \E o \in WriteOutcomes : Proceed(r, EncodeEnd(resp[r], buf[r], o.enc), o)
    /\ UNCHANGED <<sidecar, req, res, cursor, calls, log, obs, overlapped>>

\* the handler returns: its deferred calls run (rows.Close, the observation)
HandlerReturn(r) ==
    /\ pc[r] = "returning"
    /\ cursor' = [cursor EXCEPT ![r] = CloseRows(@)]
    /\ obs' = [obs EXCEPT ![r] = Append(@, OpName(Handler(r)))]
    /\ Goto(r, "translate")
    /\ UNCHANGED <<sidecar, req, resp, res, calls, hist, buf, retErr, log, overlapped>>

\* lines 72-76: handleErr logs the error and calls http.Error whether or not a
\* response is committed; the server finishes
Translate(r) ==
    /\ pc[r] = "translate"
    /\ log' = [log EXCEPT ![r] = @ \o LogErr(retErr[r], req[r].path)]
    /\ \E acc \in Accepts(resp[r]) :
          /\ resp' = [resp EXCEPT ![r] = FinishResponse(HandleErr(resp[r], retErr[r], acc))]
          /\ hist' = [hist EXCEPT ![r] = IF retErr[r] # NoErr /\ resp[r].failed
                                         THEN Append(@, TextOutcome(acc)) ELSE @]
    /\ Goto(r, "done")
    /\ UNCHANGED <<sidecar, req, res, cursor, calls, buf, retErr, obs, overlapped>>

Next ==
    \E r \in Reqs :
        \/ Receive(r)
        \/ Redirect(r)
        \/ NotFound(r)
        \/ MethodNotAllowed(r)
        \/ Decode(r)
        \/ LookupInvoke(r)
        \/ LookupAnswer(r)
        \/ LatencyInvoke(r)
        \/ LedgerAnswer(r)
        \/ HealthAnswer(r)
        \/ PingAnswer(r)
        \/ ScanInvoke(r)
        \/ ScanAcquired(r)
        \/ ScanNext(r)
        \/ ScanEnd(r)
        \/ WriteEnds(r)
        \/ HandlerReturn(r)
        \/ Translate(r)

Spec == Init /\ [][Next]_vars

(***************************************************************************)
(* Key codec alone: one lookup whose ReadRequest is any sequence of at     *)
(* most MaxKeys key segments.                                              *)
(***************************************************************************)
KeySeqs(n) == UNION {[1..k -> Keys] : k \in 0..n}

InitKey ==
    /\ sidecar = [bindAddr |-> ":1331", reader |-> "reader", maxRows |-> 0]
    /\ req \in {[PerReq(NoReq) EXCEPT !["r1"] = Request("POST", LookupPath, Body(FALSE, ks))] :
                    ks \in KeySeqs(MaxKeys)}
    /\ pc = [PerReq("idle") EXCEPT !["r1"] = "routed"]
    /\ resp = PerReq(NewWriter)
    /\ res = PerReq(<<>>)
    /\ cursor = PerReq(NoCursor)
    /\ calls = PerReq(<<>>)
    /\ hist = PerReq(<<>>)
    /\ buf = PerReq(<<>>)
    /\ retErr = PerReq(NoErr)
    /\ log = PerReq(<<>>)
    /\ obs = PerReq(<<>>)
    /\ overlapped = FALSE

NextKey ==
    \/ Decode("r1")
    \/ LookupInvoke("r1")
    \/ LookupAnswer("r1")
    \/ WriteEnds("r1")
    \/ HandlerReturn("r1")
    \/ Translate("r1")

SpecKey == InitKey /\ [][NextKey]_vars

(***************************************************************************)
(* Vocabulary of the properties                                            *)
(***************************************************************************)
Done(r) == pc[r] = "done"

\* the handler of the request has returned to handleErr
Returned(r) == pc[r] \in {"translate", "done"}

IsPost(r) == Handler(r) \in {"getRowByKey", "getRowsByKeyPrefix"}

IsScan(r) == Handler(r) = "getRowsByKeyPrefix"

Contains(seq, x) == \E i \in 1..Len(seq) : seq[i] = x

\* the outcomes of kind k the request met, in order
EventsOf(r, k) == SelectSeq(hist[r], LAMBDA o : o.k = k)

\* the rows the cursor yielded and the handler decoded, in cursor order
YieldedRows(r) ==
    LET rows == SelectSeq(hist[r], LAMBDA o : o.k = "row" /\ o.e = NoErr)
    IN  [i \in 1..Len(rows) |-> rows[i].x]

HasRowData(w) == \E i \in 1..Len(w.body) : w.body[i].kind # "text"

ReturnedErr(r) == retErr[r]

\* Encode wrote the whole value
Encoded(r) == EventsOf(r, "write") # <<>> /\ EventsOf(r, "write")[1].enc = "ok"

ErrorResponse(err) == [status |-> 500, body |-> <<ErrLine(err)>>]

StatusAndBody(w) == [status |-> w.status, body |-> w.body]

\* C1: a POST request whose body is malformed JSON never reaches the Reader
\* (no call, no cursor) and ends with status 500.
C1_MalformedBody ==
    \A r \in Reqs :
        (pc[r] # "idle" /\ IsPost(r) /\ req[r].body.malformed) =>
            /\ calls[r] = <<>>
            /\ ~cursor[r].acquired
            /\ pc[r] \notin {"decoded", "called", "iter", "writing"}
            /\ Done(r) => resp[r].status = 500

C1_Witness ==
    /\ Done("r1") /\ Handler("r1") = "getRowsByKeyPrefix" /\ req["r1"].body.malformed
    /\ Done("r2") /\ Handler("r2") = "getRowByKey" /\ req["r2"].body.malformed
    /\ resp["r1"].status = 500 /\ resp["r2"].status = 500

\* C2: a cursor the Reader returned is open while the handler runs, the time
\* it writes the response included, and has been closed exactly once when the
\* handler has returned, whatever the exit.
C2_CursorClosedOnce ==
    \A r \in Reqs :
        /\ cursor[r].acquired =>
              IsScan(r) /\ pc[r] \in {"iter", "writing", "returning", "translate", "done"}
        /\ (cursor[r].acquired /\ ~Returned(r)) => cursor[r].closes = 0
        /\ (cursor[r].acquired /\ Returned(r)) => cursor[r].closes = 1
        /\ ~cursor[r].acquired => cursor[r].closes = 0
        /\ (IsScan(r) /\ EventsOf(r, "acquire") # <<>>
                /\ EventsOf(r, "acquire")[1].e = NoErr) => cursor[r].acquired

\* r1 left by a Scan error after a decoded row, r2 by a failed encoding
C2_Witness ==
    /\ Done("r1") /\ cursor["r1"].closes = 1 /\ cursor["r1"].decoded = 1
    /\ ReturnedErr("r1") \in {Wrap(e, "scan") : e \in ReaderErrs}
    /\ Done("r2") /\ cursor["r2"].closes = 1 /\ ReturnedErr("r2") = WriteErr

\* C3: with a ceiling N > 0 no 200 response of a scan holds more than N rows,
\* once more than N rows were yielded the response is 500 with the ceiling's
\* message and no row data, and nothing is written while the list is built.
C3_RowCeiling ==
    \A r \in Reqs :
        IsScan(r) =>
            /\ pc[r] \in {"routed", "decoded", "called", "iter"} => resp[r] = NewWriter
            /\ (Done(r) /\ sidecar.maxRows > 0) =>
                /\ resp[r].status = 200 =>
                      \A i \in 1..Len(resp[r].body) :
                          Len(resp[r].body[i].val) <= sidecar.maxRows
                /\ Len(YieldedRows(r)) > sidecar.maxRows =>
                      /\ resp[r].status = 500
                      /\ ~HasRowData(resp[r])
                      /\ Len(resp[r].body) = 1
                      /\ Contains(resp[r].body[1].text, ToString(sidecar.maxRows))

C3_Witness ==
    \E r \in Reqs :
        /\ IsScan(r) /\ Done(r) /\ sidecar.maxRows = 2
        /\ Len(YieldedRows(r)) = 3
        /\ resp[r].status = 500

\* C4: a lookup the Reader answers with found=false and no error ends with 404,
\* the X-Ctlstore header and an empty body, and nothing is logged; the 404 of an
\* unmatched route (an unknown path, a registered path with a trailing slash or
\* an empty path variable) carries no such header, nor does any response of
\* another route.
C4_NotFound ==
    \A r \in Reqs :
        Done(r) =>
            /\ (Handler(r) = "getRowByKey" /\ hist[r] # <<>>
                    /\ hist[r][1].e = NoErr /\ ~hist[r][1].found) =>
                  /\ resp[r].status = 404
                  /\ "X-Ctlstore" \in resp[r].sent
                  /\ resp[r].body = <<>>
                  /\ log[r] = <<>>
            /\ Handler(r) = "notfound" =>
                  /\ resp[r].status = 404
                  /\ "X-Ctlstore" \notin resp[r].sent
            /\ "X-Ctlstore" \in resp[r].sent => Handler(r) = "getRowByKey"

\* r1 is a lookup of a missing row, r2 the lookup path with an empty table name
C4_Witness ==
    /\ Done("r1") /\ Handler("r1") = "getRowByKey" /\ hist["r1"] # <<>>
    /\ hist["r1"][1].e = NoErr /\ ~hist["r1"][1].found /\ resp["r1"].status = 404
    /\ Done("r2") /\ Handler("r2") = "notfound" /\ resp["r2"].status = 404
    /\ req["r2"].method = "POST" /\ req["r2"].path = <<"get-row-by-key", "f", "">>

\* C5 as stated: a segment resolves to its Binary when that is non-empty, and
\* to its Value when the Binary is absent or of length zero; the Reader gets
\* the resolved segments in the order of the request.
C5_NonEmptyBinaryWins ==
    \A r \in Reqs : \A c \in 1..Len(calls[r]) :
        LET ks == req[r].body.keys
        IN  calls[r][c].args =
                [i \in 1..Len(ks) |->
                    IF Len(ks[i].Binary.v) > 0 THEN ks[i].Binary ELSE ks[i].Value]

\* C5 amended: a segment resolves to its Binary when that is present (non-nil),
\* a present Binary of length zero included, and to its Value only when the
\* Binary is absent; the Reader gets the resolved segments in the order of the
\* request.
C5_PresentBinaryWins ==
    \A r \in Reqs : \A c \in 1..Len(calls[r]) :
        LET ks == req[r].body.keys
        IN  calls[r][c].args =
                [i \in 1..Len(ks) |->
                    IF ks[i].Binary.t = "bytes" THEN ks[i].Binary ELSE ks[i].Value]

C5_Witness ==
    /\ Done("r1") /\ Len(calls["r1"]) = 1 /\ Len(req["r1"].body.keys) = 2
    /\ req["r1"].body.keys[1] = [Value |-> [t |-> "num", v |-> <<7>>], Binary |-> Bytes(<<>>)]
    /\ req["r1"].body.keys[2] = [Value |-> [t |-> "num", v |-> <<7>>], Binary |-> Bytes(<<1>>)]
    /\ calls["r1"][1].args = <<Bytes(<<>>), Bytes(<<1>>)>>

\* C6: an error a handler returns is logged once with the URL; the translator
\* writes 500 and the error text when nothing was committed, and otherwise
\* leaves the response as the handler left it: one status, one source of body.
C6_TranslatorOnlyIfUncommitted ==
    \A r \in Reqs :
        Done(r) =>
            /\ Len(log[r]) <= 1
            /\ log[r] # <<>> =>
                /\ log[r][1].url = req[r].path
                /\ \/ StatusAndBody(resp[r]) = ErrorResponse(log[r][1].err)
                   \/ /\ resp[r].status # 500
                      /\ \A i \in 1..Len(resp[r].body) : resp[r].body[i].kind # "text"

\* C7: /ping and /healthcheck answer alike for the same outcome of
\* GetLedgerLatency: 200 and no body on success, 500 and a body with
\* "healthcheck" and the Reader's message on failure.
C7_PingIsHealthcheck ==
    /\ \A r \in Reqs :
          (Done(r) /\ Handler(r) \in {"ping", "healthcheck"}) =>
              LET o == hist[r][1]
              IN  /\ o.e = NoErr => resp[r].status = 200 /\ resp[r].body = <<>>
                  /\ o.e # NoErr =>
                        /\ resp[r].status = 500
                        /\ Len(resp[r].body) = 1
                        /\ Contains(resp[r].body[1].text, "healthcheck")
                        /\ Contains(resp[r].body[1].text, o.e[1])
    /\ \A p, q \in Reqs :
          (Done(p) /\ Done(q) /\ Handler(p) = "ping" /\ Handler(q) = "healthcheck"
                /\ hist[p] = hist[q]) =>
              StatusAndBody(resp[p]) = StatusAndBody(resp[q])

C7_Witness ==
    /\ Done("r1") /\ Handler("r1") = "ping"
    /\ Done("r2") /\ Handler("r2") = "healthcheck"
    /\ hist["r1"] = hist["r2"]
    /\ hist["r1"][1].e = <<"replica unreachable">>
    /\ resp["r1"].status = 500

\* the failure the Reader surfaced to the request, if any
ReaderFailures(r) == SelectSeq(hist[r], LAMBDA o : o.e # NoErr)

OnReaderRoute(r) == Handler(r) \in {"getRowByKey", "getRowsByKeyPrefix", "getLedgerLatency"}

\* C8 as stated: every failure of the Reader on the lookup, scan and
\* ledger-latency routes ends with 500 and exactly the Reader's message.
C8_ReaderErrorVerbatim ==
    \A r \in Reqs :
        (Done(r) /\ OnReaderRoute(r) /\ ReaderFailures(r) # <<>>) =>
            StatusAndBody(resp[r]) = ErrorResponse(ReaderFailures(r)[1].e)

\* C8 amended: every such failure ends with 500 and a body that ends with the
\* Reader's message; the message stands alone for a lookup, a cursor
\* acquisition and a cursor iteration error, follows "scan" for a row Scan
\* error and "get ledger latency" on the ledger-latency route.
C8_ReaderErrorWithContext ==
    \A r \in Reqs :
        (Done(r) /\ OnReaderRoute(r) /\ ReaderFailures(r) # <<>>) =>
            LET o == ReaderFailures(r)[1]
                text == CASE o.k = "row" -> <<"scan">> \o o.e
                          [] o.k = "latency" -> <<"get ledger latency">> \o o.e
                          [] OTHER -> o.e
            IN  StatusAndBody(resp[r]) = ErrorResponse(text)

C8_Witness ==
    /\ Done("r1") /\ IsScan("r1") /\ ReaderFailures("r1") # <<>>
    /\ ReaderFailures("r1")[1].k = "row"
    /\ Done("r2") /\ Handler("r2") = "getLedgerLatency" /\ ReaderFailures("r2") # <<>>
    /\ resp["r1"].status = 500 /\ resp["r2"].status = 500

\* the scan left its loop on the ceiling
LimitAbort(r) ==
    /\ IsScan(r) /\ pc[r] \in {"returning", "translate", "done"}
    /\ ReturnedErr(r) = LimitErr(sidecar.maxRows)

\* C9: the ceiling is checked after each append.  A scan aborts on the limit
\* only with a ceiling N > 0 and exactly N+1 rows fetched and decoded, it does
\* so as soon as it holds N+1 rows and fetches no more; a cursor that ends after
\* at most N rows (any number with N = 0) without error gives 200 and all its
\* rows in cursor order.
C9_CheckAfterAppend ==
    \A r \in Reqs :
        IsScan(r) =>
            /\ LimitAbort(r) =>
                  /\ sidecar.maxRows > 0
                  /\ cursor[r].fetched = sidecar.maxRows + 1
                  /\ cursor[r].decoded = sidecar.maxRows + 1
            /\ sidecar.maxRows > 0 => cursor[r].fetched <= sidecar.maxRows + 1
            /\ (sidecar.maxRows > 0 /\ cursor[r].decoded > sidecar.maxRows) => LimitAbort(r)
            /\ pc[r] = "iter" => res[r] = YieldedRows(r)
            /\ (Done(r) /\ EventsOf(r, "end") # <<>>) =>
                  LET o == EventsOf(r, "end")[1]
                  IN  /\ ~LimitAbort(r)
                      /\ (o.e = NoErr /\ Encoded(r)) =>
                            /\ resp[r].status = 200
                            /\ resp[r].body = <<JsonArray(YieldedRows(r))>>

\* r1 aborted on a ceiling of 2 with 3 rows, r2 returned exactly 2 distinct rows
C9_Witness ==
    /\ sidecar.maxRows = 2
    /\ LimitAbort("r1") /\ cursor["r1"].fetched = 3
    /\ Done("r2") /\ IsScan("r2") /\ resp["r2"].status = 200
    /\ resp["r2"].body = <<JsonArray(<<"b", "a">>)>>

(***************************************************************************)
(* The handlers run alone: the response a request gets when its handler    *)
(* runs from start to end on the outcomes the request met, with a writer   *)
(* and a row list of its own.                                              *)
(***************************************************************************)
\* Encode runs on from its wait: the write that is under way returns evs[i]
EncodeRest(a, evs, i) == IF a.buf = <<>> THEN a ELSE EncodeEnd(a.w, a.buf, evs[i].enc)

RECURSIVE ScanLoop(_, _, _, _)
ScanLoop(acc, evs, i, maxRows) ==
    IF i > Len(evs) THEN Out(NewWriter, NoErr)
    ELSE IF evs[i].k = "row"
         THEN LET st == ScanStep(acc, evs[i], maxRows)
              IN  IF st.err # NoErr THEN Out(NewWriter, st.err)
                  ELSE ScanLoop(st.res, evs, i + 1, maxRows)
         ELSE EncodeRest(ScanFinish(NewWriter, acc, evs[i]), evs, i + 1)

getRowsByKeyPrefix(body, evs, maxRows) ==
    IF DecodeBody(body).err # NoErr
    THEN Out(NewWriter, Wrap(DecodeBody(body).err, "decode body"))
    ELSE IF ScanAcquire(evs[1]).err # NoErr THEN Out(NewWriter, ScanAcquire(evs[1]).err)
    ELSE ScanLoop(<<>>, evs, 2, maxRows)

getRowByKey(body, evs) ==
    IF DecodeBody(body).err # NoErr
    THEN Out(NewWriter, Wrap(DecodeBody(body).err, "decode body"))
    ELSE EncodeRest(getRowByKeyAnswer(NewWriter, evs[1]), evs, 2)

getLedgerLatency(evs) == EncodeRest(getLedgerLatencyAnswer(NewWriter, evs[1]), evs, 2)

AloneResponse(r) ==
    LET h == Handler(r)
        out == CASE h = "getRowByKey" -> getRowByKey(req[r].body, hist[r])
                 [] h = "getLedgerLatency" -> getLedgerLatency(hist[r])
                 [] h = "healthcheck" -> healthcheckAnswer(NewWriter, hist[r][1])
                 [] h = "ping" -> pingAnswer(NewWriter, hist[r][1])
                 [] h = "getRowsByKeyPrefix" ->
                        getRowsByKeyPrefix(req[r].body, hist[r], sidecar.maxRows)
                 [] h = "redirect" -> Out(redirect(NewWriter), NoErr)
                 [] h = "methodNotAllowed" -> Out(methodNotAllowed(NewWriter), NoErr)
                 [] OTHER -> Out(notFound(NewWriter), NoErr)
        last == hist[r][Len(hist[r])]
        acc == out.w.failed => last.k = "text" /\ last.enc = "ok"
    IN  FinishResponse(HandleErr(out.w, out.err, acc))

\* what a request owns, and what changes whenever its handling takes a step
Position(r) == <<req[r], pc[r], cursor[r], hist[r]>>

Private(r) == <<resp[r], res[r], cursor[r], calls[r], buf[r], retErr[r], log[r]>>

\* C10: whatever the interleaving, no step changes the Sidecar's bind address,
\* Reader or ceiling, a step of one request leaves the response, row list,
\* cursor and encoder buffer of every other request alone, and a finished
\* request has the response its handler gives when run alone on the same
\* input and outcomes.
C10_Isolation ==
    /\ [][ /\ sidecar' = sidecar
           /\ \A r \in Reqs : Position(r)' = Position(r) => Private(r)' = Private(r)
         ]_vars
    /\ [](\A r \in Reqs : Done(r) => resp[r] = AloneResponse(r))

\* two scans ran together, one appending a row while the cursor of the other
\* was open; both have returned the rows of their own cursor
C10_Witness ==
    /\ overlapped
    /\ Done("r1") /\ IsScan("r1") /\ Done("r2") /\ IsScan("r2")
    /\ resp["r1"].body = <<JsonArray(<<"a", "a">>)>>
    /\ resp["r2"].body = <<JsonArray(<<"b">>)>>

====
